---- MODULE Spec2Model ----
(***************************************************************************)
(* Artefakt extension: the capture pipeline of the background worker, the  *)
(* source store with its soft-delete operations, the CSL-JSON converter    *)
(* and the citation engine wrapper.                                        *)
(*                                                                         *)
(* Spec     : captureSource invocations (one step per await) interleaved   *)
(*            with the store operations of the side panel.                 *)
(* SpecCSL  : sourceToCSL applied to bounded Source Records.               *)
(* SpecCite : one citation request of the CitationFormatter component.     *)
(* SpecLoad : concurrent loadStyle invocations and the two style caches.   *)
(* SpecOffscreen : concurrent ensureOffscreenDocument calls of local PDF    *)
(*            captures.                                                    *)
(* SpecStore, SpecGroups : the store and group operations of the side      *)
(*            panel around sequential captures.                            *)
(***************************************************************************)
EXTENDS Integers, Sequences, FiniteSets, TLC

VARIABLES
    sources,    \* db.sources: the set of stored Source Records
    sessions,   \* db.sessions
    groups,     \* db.groups: the ids of the existing groups
    now,        \* the clock read by new Date()
    nextId,     \* the ids handed out per table, and the invocations started
    bg,         \* position of initSession() started by defineBackground;
                \* SpecOffscreen: the ensureOffscreenDocument calls
    cap,        \* the captureSource invocations, one record per slot
    rec,        \* SpecCSL: the Source Record handed to sourceToCSL
    csl,        \* SpecCSL: the CSL item it returned
    cite        \* SpecCite: the state of the CitationFormatter request

vars == <<sources, sessions, groups, now, nextId, bg, cap, rec, csl, cite>>


(***************************************************************************)
(* Bounds of the model.                                                    *)
(***************************************************************************)
MaxCaptures == 2    \* captureSource invocations started in one run
MaxStoreCaptures == 1   \* SpecStore: captureSource invocations in one run
MaxTime == 1        \* last value of the clock
MaxGroups == 1      \* groups created in one run
MaxAuthors == 2     \* SpecCSL: entries of a record's author array
MaxCited == 2       \* SpecCite: sources of one citation request
MaxRequests == 1    \* SpecCite: citation requests in one run
MaxLoads == 2       \* SpecLoad: loadStyle invocations in one run
MaxEnsures == 3     \* SpecOffscreen: ensureOffscreenDocument calls in one run

\* every invocation has a slot of its own
Procs == 1..MaxCaptures

(***************************************************************************)
(* JavaScript values.  A string is a TLA+ string, "" the empty string;     *)
(* Undefined stands for undefined (an absent property read).               *)
(***************************************************************************)
Undefined == "<undefined>"
Null == "<null>"

\* a || b on strings and undefined
OrElse(a, b) == IF a \in {"", Undefined, Null} THEN b ELSE a

\* Boolean(a)
Truthy(a) == a \notin {"", Undefined, Null}

(***************************************************************************)
(* URLs.  A URL is a record of the parts the code inspects: the scheme     *)
(* (startsWith), the hostname (includes), the file extension and the last  *)
(* path segment.  NoUrl is a tab whose url property is undefined.          *)
(***************************************************************************)
Url(scheme, host, name, ext) ==
    [scheme |-> scheme, host |-> host, name |-> name, ext |-> ext]

NoUrl == Url("", "", "", "")
WebUrl == Url("https", "example.com", "page", "")
ChatUrl == Url("https", "chatgpt.com", "c1", "")
VideoUrl == Url("https", "youtube.com", "watch", "")
FileUrl == Url("file", "", "paper", "pdf")
ChromeUrl == Url("chrome", "extensions", "", "")

\* the tabs captured in Spec
CapturedUrls == {WebUrl, ChatUrl, FileUrl, ChromeUrl, NoUrl}

isHttpUrl(url) == url.scheme \in {"http", "https"}
isFileUrl(url) == url.scheme = "file"

\* isPDFUrl: the lower-cased URL ends with .pdf (or has .pdf? / .pdf#)
isPDFUrl(url) == url.ext = "pdf"

\* captureSource step 1: only web pages and local files can be captured
IsCapturable_all(url) == TRUE

IsCapturable(url) == isHttpUrl(url) \/ isFileUrl(url)

(***************************************************************************)
(* Error messages of captureSource and of its message handler.             *)
(***************************************************************************)
ErrNoTabId == "No tab ID provided"
ErrNoTab == "No tab with id"
ErrUnsupported == "Cannot capture this page. Only web pages and local files can be captured."
ErrDuplicate == "This page has already been captured."
ErrScreenshot == "Failed to capture screenshot. The page may be protected or hidden."
ErrExtract == "Failed to extract metadata"
ErrInject == "Cannot access contents of the page"
ErrProcess == "Failed to process screenshot"
ErrSave == "Failed to add source"

NoError == ""

(***************************************************************************)
(* Page signals read by the extractors: the JSON-LD headline/name, the     *)
(* og:title content, document.title, the text of the video title element,  *)
(* and whether the path is a landing page.                                 *)
(***************************************************************************)
Sig(ld, og, doc, h1, landing) ==
    [ld |-> ld, og |-> og, doc |-> doc, h1 |-> h1, landing |-> landing]

PageSignals ==
    { Sig(ld, og, doc, h1, landing) :
        ld \in {"", "LD"}, og \in {"", "OG"}, doc \in {"", "Doc"},
        h1 \in {""}, landing \in BOOLEAN }
    \cup { Sig("", "", doc, h1, FALSE) : doc \in {"", "Doc"}, h1 \in {"", "H1"} }

\* extractGenericMetadata: the title by page kind (step 4 of the extractor)
GenericTitle(sig) ==
    IF sig.landing
    THEN OrElse(sig.og, OrElse(sig.doc, sig.ld))
    ELSE OrElse(sig.ld, OrElse(sig.og, sig.doc))

NoObject == "<absent>"
AiObject == "<aiMetadata>"

Meta(title, url, sourceType, platform, ai) ==
    [title |-> title, url |-> url, sourceType |-> sourceType,
     platform |-> platform, aiMetadata |-> ai]

NoMeta == Meta(Undefined, NoUrl, Undefined, Undefined, NoObject)

extractGenericMetadata(url, sig) ==
    Meta(GenericTitle(sig), url, Undefined, Undefined, NoObject)

AiHosts == {"chat.openai.com", "chatgpt.com", "claude.ai", "gemini.google.com"}

AiPlatform(host) ==
    CASE host \in {"chat.openai.com", "chatgpt.com"} -> "chatgpt"
      [] host = "claude.ai" -> "claude"
      [] host = "gemini.google.com" -> "gemini"
      [] OTHER -> Undefined

\* extractYouTubeMetadata: title element text, else document.title
YouTubeTitle(sig) == OrElse(sig.h1, sig.doc)

\* a mutant of extractMetadata: the platform branch tags the page as an AI
\* conversation but drops the extractor's aiMetadata
extractMetadata_noAi(url, sig) ==
    IF url.host \in AiHosts
    THEN [extractGenericMetadata(url, sig) EXCEPT
            !.sourceType = "ai-conversation", !.platform = AiPlatform(url.host)]
    ELSE [extractGenericMetadata(url, sig) EXCEPT !.sourceType = "webpage"]

\* extractMetadata of the content script: platform extractors first, each
\* spread over the generic metadata, else the generic metadata as a webpage
extractMetadata(url, sig) ==
    IF url.host \in AiHosts
    THEN [extractGenericMetadata(url, sig) EXCEPT
            !.aiMetadata = AiObject,
            !.sourceType = "ai-conversation",
            !.platform = AiPlatform(url.host)]
    ELSE IF url.host = "youtube.com"
    THEN [extractGenericMetadata(url, sig) EXCEPT
            !.title = YouTubeTitle(sig),
            !.sourceType = "video",
            !.platform = "youtube"]
    ELSE [extractGenericMetadata(url, sig) EXCEPT !.sourceType = "webpage"]

\* the function injected by executeScript when the content script is silent
InlineMetadata(url, sig) == Meta(sig.doc, url, "webpage", Undefined, NoObject)

\* extractLocalFileMetadata: pdfOk is whether the offscreen document returned
\* metadata without an error, pdfTitle the title it returned
LocalSourceType(url) ==
    CASE isPDFUrl(url) -> "pdf"
      [] url.ext \in {"doc", "docx", "odt", "rtf"} -> "document"
      [] url.ext \in {"xls", "xlsx", "ods", "csv"} -> "spreadsheet"
      [] url.ext \in {"ppt", "pptx", "odp"} -> "presentation"
      [] url.ext \in {"jpg", "jpeg", "png", "gif", "webp", "svg"} -> "image"
      [] OTHER -> "document"

extractLocalFileMetadata(url, pdfOk, pdfTitle) ==
    IF isPDFUrl(url) /\ pdfOk
    THEN Meta(OrElse(pdfTitle, url.name), url, "pdf", "local", NoObject)
    ELSE Meta(url.name, url, LocalSourceType(url), "local", NoObject)

(***************************************************************************)
(* Source Records and the store.                                           *)
(***************************************************************************)
NoDate == -1            \* an absent Date property
DefaultSessionId == 0   \* the sessionId 'default'

Provenance(sessionId, tabUrl) ==
    [sessionId |-> sessionId, captureMethod |-> "manual", tabUrl |-> tabUrl]

\* step 7 of captureSource: the record assembled from the extracted metadata
AssembleSource(id, t, meta, sessionId, tabUrl) ==
    [id |-> id, createdAt |-> t, updatedAt |-> t,
     sourceType |-> OrElse(meta.sourceType, "webpage"),
     platform |-> meta.platform,
     title |-> meta.title,
     URL |-> meta.url,
     aiMetadata |-> meta.aiMetadata,
     groupIds |-> <<>>, isDeleted |-> FALSE, deletedAt |-> NoDate,
     provenance |-> Provenance(sessionId, tabUrl)]

NoSource == AssembleSource(0, 0, NoMeta, DefaultSessionId, NoUrl)

\* a mutant of the duplicate query: it reads the property under the wrong
\* name (metadata.url), which no stored record has
ExistingSource_wrongKey(url) == { s \in sources : NoUrl = url }

\* a mutant of the duplicate query: it also sees the record another
\* invocation is about to add
ExistingSource_withInFlight(url) ==
    { s \in sources : s.URL = url }
        \cup { cap[q].source : q \in { r \in DOMAIN cap : cap[r].pc = "add" /\ cap[r].url = url } }

\* step 2: db.sources.filter(s => s.metadata.URL === tab.url)
ExistingSource(url) == { s \in sources : s.URL = url }

\* db.sessions.where('isActive').equals(1): the sessions indexed under the
\* key 1.  A boolean is not an IndexedDB key, so a session stored with
\* isActive: true has no entry in the isActive index.
IndexedAs(v, key) == v = key
ActiveSessions == { s \in sessions : IndexedAs(s.isActive, "1") }

SessionIdOf(found) ==
    IF found = {} THEN DefaultSessionId
    ELSE (CHOOSE s \in found : \A o \in found : s.id <= o.id).id

(***************************************************************************)
(* captureSource.  One action per await; pc names the call being awaited.  *)
(***************************************************************************)
Idle ==
    [pc |-> "idle", url |-> NoUrl, started |-> {},
     meta |-> NoMeta, source |-> NoSource, error |-> NoError]

\* a mutant of the order of the steps: the screenshot before the checks
NextStep_shotFirst(step, url) ==
    CASE step = "tabsGet" -> "captureVisibleTab"
      [] step = "captureVisibleTab" -> "dedup"
      [] step = "dedup" ->
            IF isFileUrl(url) \/ isPDFUrl(url) THEN "localFile" ELSE "sendMessage"
      [] step = "sendMessage" -> "processScreenshot"
      [] step = "executeScript" -> "processScreenshot"
      [] step = "localFile" -> "processScreenshot"
      [] step = "processScreenshot" -> "session"
      [] step = "session" -> "add"
      [] OTHER -> "done"

\* the call awaited after `step` has completed without an error
NextStep(step, url) ==
    CASE step = "tabsGet" -> "dedup"
      [] step = "dedup" -> "captureVisibleTab"
      [] step = "captureVisibleTab" ->
            IF isFileUrl(url) \/ isPDFUrl(url) THEN "localFile" ELSE "sendMessage"
      [] step = "sendMessage" -> "processScreenshot"
      [] step = "executeScript" -> "processScreenshot"
      [] step = "localFile" -> "processScreenshot"
      [] step = "processScreenshot" -> "session"
      [] step = "session" -> "add"
      [] OTHER -> "done"

\* the expensive work an invocation has started once it awaits `step`
Starts(step) ==
    CASE step = "captureVisibleTab" -> {"screenshot"}
      [] step \in {"sendMessage", "executeScript", "localFile"} -> {"extraction"}
      [] OTHER -> {}

Advance(c, step) ==
    LET to == NextStep(step, c.url)
    IN  [c EXCEPT !.pc = to, !.started = @ \cup Starts(to)]

\* the locals of a returned invocation are gone
Throw(c, msg) == [Idle EXCEPT !.pc = "failed", !.error = msg]

\* the listeners of defineBackground: a CAPTURE_SOURCE message or the
\* capture-source command starts captureSource(tabId)
StartCapture(p, url) ==
    /\ cap[p].pc = "idle"
    /\ \A q \in Procs : q < p => cap[q].pc # "idle"
    /\ cap' = [cap EXCEPT ![p] = [Idle EXCEPT !.pc = "tabsGet", !.url = url]]
    /\ UNCHANGED nextId
    /\ UNCHANGED <<sources, sessions, groups, now, bg, rec, csl, cite>>

\* the message carries no tab id and has no sender tab
NoTabId(p) ==
    /\ cap[p].pc = "idle"
    /\ \A q \in Procs : q < p => cap[q].pc # "idle"
    /\ cap' = [cap EXCEPT ![p] = [Idle EXCEPT !.pc = "failed", !.error = ErrNoTabId]]
    /\ UNCHANGED nextId
    /\ UNCHANGED <<sources, sessions, groups, now, bg, rec, csl, cite>>

\* step 1: browser.tabs.get resolved; the capturable check
TabsGetDone(p) ==
    /\ cap[p].pc = "tabsGet"
    /\ cap' = [cap EXCEPT ![p] =
                 IF IsCapturable(cap[p].url)
                 THEN Advance(cap[p], "tabsGet")
                 ELSE Throw(cap[p], ErrUnsupported)]
    /\ UNCHANGED <<sources, sessions, groups, now, nextId, bg, rec, csl, cite>>

\* step 1: browser.tabs.get rejected (the tab is gone)
TabsGetFail(p) ==
    /\ cap[p].pc = "tabsGet"
    /\ cap' = [cap EXCEPT ![p] = Throw(cap[p], ErrNoTab)]
    /\ UNCHANGED <<sources, sessions, groups, now, nextId, bg, rec, csl, cite>>

\* step 2: the duplicate query resolved
DedupDone(p) ==
    /\ cap[p].pc = "dedup"
    /\ cap' = [cap EXCEPT ![p] =
                 IF ExistingSource(cap[p].url) # {}
                 THEN Throw(cap[p], ErrDuplicate)
                 ELSE Advance(cap[p], "dedup")]
    /\ UNCHANGED <<sources, sessions, groups, now, nextId, bg, rec, csl, cite>>

\* step 3: captureVisibleTab resolved or rejected
ScreenshotDone(p, ok) ==
    /\ cap[p].pc = "captureVisibleTab"
    /\ cap' = [cap EXCEPT ![p] =
                 IF ok THEN Advance(cap[p], "captureVisibleTab")
                 ELSE Throw(cap[p], ErrScreenshot)]
    /\ UNCHANGED <<sources, sessions, groups, now, nextId, bg, rec, csl, cite>>

\* step 4, web page: the content script answered EXTRACT_METADATA
ContentScriptReply(p, sig) ==
    /\ cap[p].pc = "sendMessage"
    /\ cap' = [cap EXCEPT ![p] =
                 [Advance(cap[p], "sendMessage") EXCEPT
                    !.meta = extractMetadata(cap[p].url, sig)]]
    /\ UNCHANGED <<sources, sessions, groups, now, nextId, bg, rec, csl, cite>>

\* step 4, web page: no content script; the extractor is injected
ContentScriptSilent(p) ==
    /\ cap[p].pc = "sendMessage"
    /\ cap' = [cap EXCEPT ![p] =
                 [cap[p] EXCEPT !.pc = "executeScript",
                                !.started = @ \cup Starts("executeScript")]]
    /\ UNCHANGED <<sources, sessions, groups, now, nextId, bg, rec, csl, cite>>

\* step 4, web page: executeScript resolved with a result, with none, or
\* rejected
ExecuteScriptDone(p, sig, outcome) ==
    /\ cap[p].pc = "executeScript"
    /\ cap' = [cap EXCEPT ![p] =
                 CASE outcome = "result" ->
                        [Advance(cap[p], "executeScript") EXCEPT
                           !.meta = InlineMetadata(cap[p].url, sig)]
                   [] outcome = "empty" -> Throw(cap[p], ErrExtract)
                   [] OTHER -> Throw(cap[p], ErrInject)]
    /\ UNCHANGED <<sources, sessions, groups, now, nextId, bg, rec, csl, cite>>

\* step 4, local file or PDF: extractLocalFileMetadata resolved (it catches
\* every failure of the offscreen extraction)
LocalFileDone(p, pdfOk, pdfTitle) ==
    /\ cap[p].pc = "localFile"
    /\ cap' = [cap EXCEPT ![p] =
                 [Advance(cap[p], "localFile") EXCEPT
                    !.meta = extractLocalFileMetadata(cap[p].url, pdfOk, pdfTitle)]]
    /\ UNCHANGED <<sources, sessions, groups, now, nextId, bg, rec, csl, cite>>

\* step 5: processScreenshot resolved or rejected
ProcessDone(p, ok) ==
    /\ cap[p].pc = "processScreenshot"
    /\ cap' = [cap EXCEPT ![p] =
                 IF ok THEN Advance(cap[p], "processScreenshot")
                 ELSE Throw(cap[p], ErrProcess)]
    /\ UNCHANGED <<sources, sessions, groups, now, nextId, bg, rec, csl, cite>>

\* steps 6 and 7: the session query resolved; the record is assembled with a
\* fresh id and handed to db.sources.add
SessionDone(p) ==
    /\ cap[p].pc = "session"
    /\ nextId' = [nextId EXCEPT !.source = @ + 1]
    /\ cap' = [cap EXCEPT ![p] =
                 [Advance(cap[p], "session") EXCEPT
                    !.meta = NoMeta,
                    !.source = AssembleSource(nextId.source + 1, now, cap[p].meta,
                                              SessionIdOf(ActiveSessions), cap[p].url)]]
    /\ UNCHANGED <<sources, sessions, groups, now, bg, rec, csl, cite>>

\* a mutant of step 8: the record is stored although the add was rejected
AddDone_storesOnFailure(p, ok) ==
    /\ cap[p].pc = "add"
    /\ sources' = sources \cup {cap[p].source}
    /\ cap' = [cap EXCEPT ![p] =
                 IF ok THEN [Idle EXCEPT !.pc = "done"] ELSE Throw(cap[p], ErrSave)]
    /\ UNCHANGED <<sessions, groups, now, nextId, bg, rec, csl, cite>>

\* step 8: db.sources.add resolved and captureSource returns the source id,
\* or it rejected
AddDone(p, ok) ==
    /\ cap[p].pc = "add"
    /\ sources' = IF ok THEN sources \cup {cap[p].source} ELSE sources
    /\ cap' = [cap EXCEPT ![p] =
                 IF ok THEN [Idle EXCEPT !.pc = "done"] ELSE Throw(cap[p], ErrSave)]
    /\ UNCHANGED <<sessions, groups, now, nextId, bg, rec, csl, cite>>

(***************************************************************************)
(* initSession, started (not awaited) when the background worker starts.   *)
(***************************************************************************)
\* the query for an active session resolved
InitSessionQuery ==
    /\ bg = "query"
    /\ bg' = IF ActiveSessions = {} THEN "add" ELSE "done"
    /\ UNCHANGED <<sources, sessions, groups, now, nextId, cap, rec, csl, cite>>

\* db.sessions.add({id: uuid(), createdAt, isActive: true}) resolved
InitSessionAdd ==
    /\ bg = "add"
    /\ nextId' = [nextId EXCEPT !.session = @ + 1]
    /\ sessions' = sessions \cup {[id |-> nextId.session + 1, isActive |-> "true"]}
    /\ bg' = "done"
    /\ UNCHANGED <<sources, groups, now, cap, rec, csl, cite>>

(***************************************************************************)
(* Store operations of the side panel.  A Dexie modify() runs in one       *)
(* transaction, so each is one step.                                       *)
(***************************************************************************)
Modify(id, f(_)) == { IF s.id = id THEN f(s) ELSE s : s \in sources }

\* a mutant of softDeleteSource: the group memberships are kept
SoftDeleted_keepGroups(s) ==
    [s EXCEPT !.isDeleted = TRUE, !.deletedAt = now, !.updatedAt = now]

\* the modifier of softDeleteSource
SoftDeleted(s) ==
    [s EXCEPT !.isDeleted = TRUE, !.deletedAt = now, !.updatedAt = now,
              !.groupIds = <<>>]

\* a mutant of restoreSource: updatedAt is left as it was
Restored_staleUpdatedAt(s) ==
    [s EXCEPT !.isDeleted = FALSE, !.deletedAt = NoDate]

\* the modifier of restoreSource
Restored(s) ==
    [s EXCEPT !.isDeleted = FALSE, !.deletedAt = NoDate, !.updatedAt = now]

softDeleteSource(id) ==
    /\ \E s \in sources : s.id = id
    /\ sources' = Modify(id, SoftDeleted)
    /\ UNCHANGED <<sessions, groups, now, nextId, bg, cap, rec, csl, cite>>

restoreSource(id) ==
    /\ \E s \in sources : s.id = id
    /\ sources' = Modify(id, Restored)
    /\ UNCHANGED <<sessions, groups, now, nextId, bg, cap, rec, csl, cite>>

permanentlyDeleteSource(id) ==
    /\ \E s \in sources : s.id = id
    /\ sources' = { s \in sources : s.id # id }
    /\ UNCHANGED <<sessions, groups, now, nextId, bg, cap, rec, csl, cite>>

\* the queries
getAllSourcesIncludingDeleted == sources
getActiveSources == { s \in sources : ~s.isDeleted }
getDeletedSources == { s \in sources : s.isDeleted = TRUE }

(***************************************************************************)
(* Group operations.                                                       *)
(***************************************************************************)
Includes(seq, x) == \E i \in 1..Len(seq) : seq[i] = x
Without(seq, x) == SelectSeq(seq, LAMBDA g : g # x)

createGroup ==
    /\ nextId.group < MaxGroups
    /\ nextId' = [nextId EXCEPT !.group = @ + 1]
    /\ groups' = groups \cup {nextId.group + 1}
    /\ UNCHANGED <<sources, sessions, now, bg, cap, rec, csl, cite>>

AddedToGroup(s, g) ==
    IF Includes(s.groupIds, g) THEN s
    ELSE [s EXCEPT !.groupIds = Append(@, g), !.updatedAt = now]

addSourceToGroup(id, g) ==
    /\ \E s \in sources : s.id = id
    /\ sources' = Modify(id, LAMBDA s : AddedToGroup(s, g))
    /\ UNCHANGED <<sessions, groups, now, nextId, bg, cap, rec, csl, cite>>

\* addSourcesToGroup: one transaction that calls addSourceToGroup for every
\* id of the list
addSourcesToGroup(ids, g) ==
    /\ \E s \in sources : s.id \in ids
    /\ sources' = { IF s.id \in ids THEN AddedToGroup(s, g) ELSE s : s \in sources }
    /\ UNCHANGED <<sessions, groups, now, nextId, bg, cap, rec, csl, cite>>

removeSourceFromGroup(id, g) ==
    /\ \E s \in sources : s.id = id
    /\ sources' = Modify(id, LAMBDA s :
                     [s EXCEPT !.groupIds = Without(@, g), !.updatedAt = now])
    /\ UNCHANGED <<sessions, groups, now, nextId, bg, cap, rec, csl, cite>>

deleteGroup(g) ==
    /\ g \in groups
    /\ sources' = { IF Includes(s.groupIds, g)
                    THEN [s EXCEPT !.groupIds = Without(@, g), !.updatedAt = now]
                    ELSE s : s \in sources }
    /\ groups' = groups \ {g}
    /\ UNCHANGED <<sessions, now, nextId, bg, cap, rec, csl, cite>>

\* setSourceGroups: the group list of the record is replaced
setSourceGroups(id, groupIds) ==
    /\ \E s \in sources : s.id = id
    /\ sources' = Modify(id, LAMBDA s :
                     [s EXCEPT !.groupIds = groupIds, !.updatedAt = now])
    /\ UNCHANGED <<sessions, groups, now, nextId, bg, cap, rec, csl, cite>>

\* a mutant of getSourcesByGroupId: the deleted records of the group too
getSourcesByGroupId_withDeleted(groupId) ==
    { s \in sources : Includes(s.groupIds, groupId) }

\* getSourcesByGroupId: where('groupIds').equals(groupId) and not deleted
getSourcesByGroupId(groupId) ==
    { s \in sources : Includes(s.groupIds, groupId) /\ ~s.isDeleted }

getUngroupedSources ==
    { s \in sources : ~s.isDeleted /\ Len(s.groupIds) = 0 }

countActiveSources == Cardinality({ s \in sources : ~s.isDeleted })

\* getGroupSourceCount of groups.ts
getGroupSourceCount(groupId) ==
    Cardinality({ s \in sources : Includes(s.groupIds, groupId) /\ ~s.isDeleted })

\* the side panel: allSources is every record of the live query, and the
\* list named sources keeps those that are not deleted
AppSources == { s \in sources : ~s.isDeleted }

\* the sources prop handed to the OriginTrail component of the timeline tab
OriginTrailSources == AppSources

\* time passes
Tick ==
    /\ now < MaxTime
    /\ now' = now + 1
    /\ UNCHANGED <<sources, sessions, groups, nextId, bg, cap, rec, csl, cite>>

(***************************************************************************)
(* Spec: the background worker and the side panel.                         *)
(***************************************************************************)
NoItem == [x \in {} |-> ""]

Init ==
    /\ sources = {}
    /\ sessions = {}
    /\ groups = {}
    /\ now = 0
    /\ nextId = [source |-> 0, session |-> 0, group |-> 0]
    /\ bg = "query"
    /\ cap = [p \in Procs |-> Idle]
    /\ rec = NoSource
    /\ csl = NoItem
    /\ cite = "idle"

SourceIds == { s.id : s \in sources }

\* the signals of the pages captured in Spec
CapturedSignals == { sig \in PageSignals : sig.og = "" /\ sig.ld = "" /\ sig.h1 = "" /\ ~sig.landing }

\* one step of the captureSource invocation in slot p
CaptureStep(p) ==
    \/ TabsGetDone(p)
    \/ TabsGetFail(p)
    \/ DedupDone(p)
    \/ \E ok \in BOOLEAN : ScreenshotDone(p, ok)
    \/ \E sig \in CapturedSignals : ContentScriptReply(p, sig)
    \/ ContentScriptSilent(p)
    \/ \E sig \in CapturedSignals, o \in {"result", "empty", "rejected"} :
            ExecuteScriptDone(p, sig, o)
    \/ \E pdfOk \in BOOLEAN, t \in {"", "PdfTitle"} :
            (pdfOk \/ t = "") /\ LocalFileDone(p, pdfOk, t)
    \/ \E ok \in BOOLEAN : ProcessDone(p, ok)
    \/ SessionDone(p)
    \/ \E ok \in BOOLEAN : AddDone(p, ok)

Next ==
    \/ \E p \in Procs, url \in CapturedUrls : StartCapture(p, url)
    \/ \E p \in Procs : NoTabId(p)
    \/ \E p \in Procs : CaptureStep(p)
    \/ \E id \in SourceIds : softDeleteSource(id)
    \/ \E id \in SourceIds : restoreSource(id)
    \/ \E id \in SourceIds : permanentlyDeleteSource(id)

Spec == Init /\ [][Next]_vars

(***************************************************************************)
(* SpecStore: the side panel's store operations with groups and a running  *)
(* clock, the user capturing one page at a time.                           *)
(***************************************************************************)
StoreUrls == {WebUrl, FileUrl}

NoCaptureInFlight == \A q \in Procs : cap[q].pc \in {"idle", "done", "failed"}

NextStore ==
    \/ \E p \in Procs, url \in StoreUrls :
            p <= MaxStoreCaptures /\ NoCaptureInFlight /\ StartCapture(p, url)
    \/ \E p \in Procs : CaptureStep(p)
    \/ \E id \in SourceIds : softDeleteSource(id)
    \/ \E id \in SourceIds : restoreSource(id)
    \/ \E id \in SourceIds : permanentlyDeleteSource(id)
    \/ createGroup
    \/ \E id \in SourceIds, g \in groups : addSourceToGroup(id, g)
    \/ \E ids \in SUBSET SourceIds, g \in groups : addSourcesToGroup(ids, g)
    \/ \E id \in SourceIds, g \in groups : removeSourceFromGroup(id, g)
    \/ \E g \in groups : deleteGroup(g)
    \/ \E id \in SourceIds, gs \in {<<>>} \cup { <<g>> : g \in groups } :
            setSourceGroups(id, gs)
    \/ Tick

\* SpecGroups: the store operations when the caller of a membership operation
\* holds a group id it got earlier, from the rendered list of groups or from
\* createGroup: the id of a group that exists or of one deleted since.
NextGroups ==
    \/ \E p \in Procs, url \in StoreUrls :
            p <= MaxStoreCaptures /\ NoCaptureInFlight /\ StartCapture(p, url)
    \/ \E p \in Procs : CaptureStep(p)
    \/ \E id \in SourceIds : softDeleteSource(id)
    \/ \E id \in SourceIds : restoreSource(id)
    \/ createGroup
    \/ \E id \in SourceIds, g \in 1..nextId.group : addSourceToGroup(id, g)
    \/ \E ids \in SUBSET SourceIds, g \in 1..nextId.group : addSourcesToGroup(ids, g)
    \/ \E id \in SourceIds, g \in groups : removeSourceFromGroup(id, g)
    \/ \E g \in groups : deleteGroup(g)
    \/ \E id \in SourceIds, gs \in {<<>>} \cup { <<g>> : g \in 1..nextId.group } :
            setSourceGroups(id, gs)
    \/ Tick

(***************************************************************************)
(* SpecSession: initSession running while pages are captured one at a      *)
(* time.  No step of captureSource writes the sessions table and no step   *)
(* of initSession reads or writes the sources, so Spec leaves initSession  *)
(* at its first await.                                                     *)
(***************************************************************************)
NextSession ==
    \/ InitSessionQuery
    \/ InitSessionAdd
    \/ \E p \in Procs, url \in CapturedUrls :
            p <= MaxStoreCaptures /\ NoCaptureInFlight /\ StartCapture(p, url)
    \/ \E p \in Procs : CaptureStep(p)

SpecSession == Init /\ [][NextSession]_vars

\* the worker has started and initSession has completed
InitStore ==
    /\ sources = {}
    /\ sessions = {[id |-> 1, isActive |-> "true"]}
    /\ groups = {}
    /\ now = 0
    /\ nextId = [source |-> 0, session |-> 1, group |-> 0]
    /\ bg = "done"
    /\ cap = [p \in Procs |-> Idle]
    /\ rec = NoSource
    /\ csl = NoItem
    /\ cite = "idle"

SpecStore == InitStore /\ [][NextStore]_vars

SpecGroups == InitStore /\ [][NextGroups]_vars

(***************************************************************************)
(* SpecOffscreen: ensureOffscreenDocument, called by extractLocalFileMetadata *)
(* for every local PDF.  bg.call[i] is the position of call i,             *)
(* bg.creatingOffscreen the module variable (0 is null, i the promise that *)
(* call i got from createDocument), bg.requests the createDocument         *)
(* requests the browser has not settled, bg.settled the promises that are  *)
(* settled, bg.exists whether the offscreen document exists.               *)
(***************************************************************************)
Ensures == 1..MaxEnsures

\* the call runs to its first await, of chrome.runtime.getContexts
ensureOffscreenDocument(i) ==
    /\ bg.call[i].pc = "idle"
    /\ bg' = [bg EXCEPT !.call[i].pc = "getContexts"]
    /\ UNCHANGED <<sources, sessions, groups, now, nextId, cap, rec, csl, cite>>

\* a mutant of the continuation after getContexts: creatingOffscreen is not
\* looked at before createDocument is called
GetContextsDone_noCheck(i, found) ==
    /\ bg.call[i].pc = "getContexts"
    /\ found => bg.exists
    /\ bg' = IF found THEN [bg EXCEPT !.call[i].pc = "done"]
             ELSE [bg EXCEPT !.call[i] = [pc |-> "await", promise |-> i],
                             !.creatingOffscreen = i,
                             !.requests = @ \cup {i}]
    /\ UNCHANGED <<sources, sessions, groups, now, nextId, cap, rec, csl, cite>>

\* getContexts resolved with the document (found), or resolved without it,
\* was unavailable or rejected; the call runs on to its next await: of the
\* promise in creatingOffscreen if there is one, else of the promise of its
\* own createDocument request, which it stores in creatingOffscreen.  The
\* answer of getContexts can be older than the document.
GetContextsDone(i, found) ==
    /\ bg.call[i].pc = "getContexts"
    /\ found => bg.exists
    /\ bg' = IF found THEN [bg EXCEPT !.call[i].pc = "done"]
             ELSE IF bg.creatingOffscreen # 0
             THEN [bg EXCEPT !.call[i] =
                                [pc |-> "await", promise |-> bg.creatingOffscreen]]
             ELSE [bg EXCEPT !.call[i] = [pc |-> "await", promise |-> i],
                             !.creatingOffscreen = i,
                             !.requests = @ \cup {i}]
    /\ UNCHANGED <<sources, sessions, groups, now, nextId, cap, rec, csl, cite>>

\* the browser settles the createDocument request of call i: it creates the
\* document (ok) unless one exists, or it rejects
CreateDocumentSettled(i, ok) ==
    /\ i \in bg.requests
    /\ ok => ~bg.exists
    /\ bg' = [bg EXCEPT !.requests = @ \ {i},
                        !.settled = @ \cup {i},
                        !.exists = @ \/ ok]
    /\ UNCHANGED <<sources, sessions, groups, now, nextId, cap, rec, csl, cite>>

\* await creatingOffscreen is over: the call that made the request runs its
\* finally block, a call that waited for another call's request returns
AwaitCreatingDone(i) ==
    /\ bg.call[i].pc = "await"
    /\ bg.call[i].promise \in bg.settled
    /\ bg' = IF bg.call[i].promise = i
             THEN [bg EXCEPT !.call[i].pc = "done", !.creatingOffscreen = 0]
             ELSE [bg EXCEPT !.call[i].pc = "done"]
    /\ UNCHANGED <<sources, sessions, groups, now, nextId, cap, rec, csl, cite>>

InitOffscreen ==
    /\ sources = {}
    /\ sessions = {}
    /\ groups = {}
    /\ now = 0
    /\ nextId = [source |-> 0, session |-> 0, group |-> 0]
    /\ bg = [call |-> [i \in Ensures |-> [pc |-> "idle", promise |-> 0]],
             creatingOffscreen |-> 0, requests |-> {}, settled |-> {},
             exists |-> FALSE]
    /\ cap = [p \in Procs |-> Idle]
    /\ rec = NoSource
    /\ csl = NoItem
    /\ cite = "idle"

NextOffscreen ==
    \/ \E i \in Ensures : ensureOffscreenDocument(i)
    \/ \E i \in Ensures, found \in BOOLEAN : GetContextsDone(i, found)
    \/ \E i \in Ensures, ok \in BOOLEAN : CreateDocumentSettled(i, ok)
    \/ \E i \in Ensures : AwaitCreatingDone(i)

SpecOffscreen == InitOffscreen /\ [][NextOffscreen]_vars

(***************************************************************************)
(* formats.ts: Source Records to CSL-JSON items.  A property value of an   *)
(* item is tagged with its JavaScript type.  An item, and every object, is *)
(* a function over the keys it has.                                        *)
(***************************************************************************)
JsUndefined == [t |-> "undefined"]
JsNull == [t |-> "null"]
Str(s) == [t |-> "string", v |-> s]
Arr(seq) == [t |-> "array", v |-> seq]
Obj(o) == [t |-> "object", v |-> o]

\* the value of a string-typed property read from a record
V(s) == CASE s = Undefined -> JsUndefined [] s = Null -> JsNull [] OTHER -> Str(s)

\* o[k] in JavaScript: undefined when the object has no such key
Prop(o, k) == IF k \in DOMAIN o THEN o[k] ELSE Undefined

\* a name string is kept as its words and commas, whitespace between them
NameStr(tokens) == [t |-> "name", v |-> tokens]

RECURSIVE Join(_)
Join(words) ==
    IF words = <<>> THEN ""
    ELSE IF Len(words) = 1 THEN words[1]
    ELSE IF words[2] = "," THEN words[1] \o Join(Tail(words))
    ELSE words[1] \o " " \o Join(Tail(words))

\* Array.prototype.join(sep)
RECURSIVE JoinWith(_, _)
JoinWith(strs, sep) ==
    IF strs = <<>> THEN ""
    ELSE IF Len(strs) = 1 THEN strs[1]
    ELSE strs[1] \o sep \o JoinWith(Tail(strs), sep)

\* the part of a token sequence before its first comma, and the part after
BeforeComma(tokens) ==
    IF \E i \in 1..Len(tokens) : tokens[i] = ","
    THEN SubSeq(tokens, 1,
                (CHOOSE i \in 1..Len(tokens) :
                    tokens[i] = "," /\ \A j \in 1..(i - 1) : tokens[j] # ",") - 1)
    ELSE tokens
AfterComma(tokens) == SubSeq(tokens, Len(BeforeComma(tokens)) + 2, Len(tokens))

NullAuthor == [k \in {} |-> ""]

AI_PLATFORM_AUTHORS ==
    [chatgpt |-> [family |-> "OpenAI", literal |-> "OpenAI"],
     claude |-> [family |-> "Anthropic", literal |-> "Anthropic"],
     gemini |-> [family |-> "Google", literal |-> "Google"],
     notebooklm |-> [family |-> "Google", literal |-> "Google"],
     grok |-> [family |-> "xAI", literal |-> "xAI"],
     copilot |-> [family |-> "Microsoft", literal |-> "Microsoft"],
     perplexity |-> [family |-> "Perplexity AI", literal |-> "Perplexity AI"]]

\* a mutant of AI_TOOL_NAMES: the platform keys as display names
AI_TOOL_NAMES_keys ==
    [p \in {"chatgpt", "claude", "gemini", "notebooklm", "grok", "copilot",
             "perplexity"} |-> p]

AI_TOOL_NAMES ==
    [chatgpt |-> "ChatGPT", claude |-> "Claude", gemini |-> "Gemini",
     notebooklm |-> "NotebookLM", grok |-> "Grok",
     copilot |-> "Microsoft Copilot", perplexity |-> "Perplexity"]

\* parseAuthorToCSL of a trimmed string; NullAuthor is its null
parseAuthorToCSL(tokens) ==
    IF tokens = <<>> THEN NullAuthor
    ELSE IF \E i \in 1..Len(tokens) : tokens[i] = ","
    THEN LET family == Join(BeforeComma(tokens))
             given == Join(BeforeComma(AfterComma(tokens)))
         IN  IF Truthy(family) /\ Truthy(given)
             THEN [family |-> family, given |-> given]
             ELSE [literal |-> Join(tokens)]
    ELSE IF Len(tokens) = 2 THEN [given |-> tokens[1], family |-> tokens[2]]
    ELSE IF Len(tokens) > 2
    THEN [given |-> Join(SubSeq(tokens, 1, Len(tokens) - 1)),
          family |-> tokens[Len(tokens)]]
    ELSE [literal |-> Join(tokens)]

\* cleanAuthor: only the truthy name parts; NullAuthor when none is
cleanAuthor(author) ==
    [k \in { n \in {"family", "given", "literal"} : Truthy(Prop(author, n)) }
        |-> author[k]]

\* the calendar date of a Date, [year, month, day], as one number
DateParts(t) == <<t>>

CslDate(parts) == Obj([dateParts |-> parts])

formatCSLDate(date) ==
    IF date.t # "object" THEN JsUndefined
    ELSE IF date.v.dateParts = <<>> THEN JsUndefined
    ELSE LET parts == SelectSeq(date.v.dateParts[1], LAMBDA n : n # NoDate)
         IN  IF parts = <<>> THEN JsUndefined ELSE CslDate(<<parts>>)

getCurrentDateCSL == CslDate(<<DateParts(now)>>)

getIssuedDate(source) ==
    LET issued == formatCSLDate(source.metadata.issued)
    IN  IF issued.t # "undefined" THEN issued
        ELSE CslDate(<<DateParts(source.createdAt)>>)

\* a mutant of FormattedDomain: the hostname as it is
FormattedDomain_hostname(url) == url.host

\* new URL(u).hostname.replace(/^www\./, ''), then
\* domain.split('.')[0].split('-').map(capitalise the first letter).join(' ')
FormattedDomain(url) ==
    LET hostname == url.host
        domain == IF Len(hostname) >= 4 /\ SubSeq(hostname, 1, 4) = "www."
                  THEN SubSeq(hostname, 5, Len(hostname)) ELSE hostname
        dots == { i \in 1..Len(domain) : SubSeq(domain, i, i) = "." }
        label == IF dots = {} THEN domain
                 ELSE SubSeq(domain, 1,
                             (CHOOSE i \in dots : \A j \in dots : i <= j) - 1)
        lower == <<"a", "b", "c", "d", "e", "f", "g", "h", "i", "j", "k", "l", "m",
                   "n", "o", "p", "q", "r", "s", "t", "u", "v", "w", "x", "y", "z">>
        upper == <<"A", "B", "C", "D", "E", "F", "G", "H", "I", "J", "K", "L", "M",
                   "N", "O", "P", "Q", "R", "S", "T", "U", "V", "W", "X", "Y", "Z">>
        toUpperCase(c) ==
            IF \E n \in 1..26 : lower[n] = c
            THEN upper[CHOOSE n \in 1..26 : lower[n] = c] ELSE c
        capitalise(word) ==
            IF word = "" THEN ""
            ELSE toUpperCase(SubSeq(word, 1, 1)) \o SubSeq(word, 2, Len(word))
        \* the words of label from position i on, word starting at position from
        RECURSIVE words(_, _)
        words(from, i) ==
            IF i > Len(label) THEN <<capitalise(SubSeq(label, from, Len(label)))>>
            ELSE IF SubSeq(label, i, i) = "-"
            THEN <<capitalise(SubSeq(label, from, i - 1))>> \o words(i + 1, i + 1)
            ELSE words(from, i + 1)
    IN  JoinWith(words(1, 1), " ")

MapSeq(seq, Op(_)) == [i \in 1..Len(seq) |-> Op(seq[i])]

AuthorOf(a) ==
    IF a.t = "object" THEN cleanAuthor(a.v)
    ELSE IF a.t = "name" THEN parseAuthorToCSL(a.v)
    ELSE NullAuthor

getAuthors(source) ==
    LET rawAuthors == source.metadata.author
        authors ==
            IF rawAuthors.t = "array"
            THEN SelectSeq(MapSeq(rawAuthors.v, AuthorOf), LAMBDA a : a # NullAuthor)
            ELSE IF rawAuthors.t = "name"
            THEN SelectSeq(<<parseAuthorToCSL(rawAuthors.v)>>, LAMBDA a : a # NullAuthor)
            ELSE <<>>
        siteName == OrElse(source.metadata.containerTitle, source.metadata.publisher)
    IN  IF authors # <<>> THEN authors
        ELSE IF Truthy(siteName) THEN <<[literal |-> siteName]>>
        ELSE IF source.metadata.URL # NoUrl /\ FormattedDomain(source.metadata.URL) # ""
        THEN <<[literal |-> FormattedDomain(source.metadata.URL)]>>
        ELSE <<>>

\* a mutant of cleanCSLItem: empty arrays and empty authors are kept
Kept_keepEmptyArrays(item) ==
    { k \in DOMAIN item :
        item[k].t \notin {"undefined", "null"} /\ item[k] # Str("") }

\* cleanCSLItem: the keys that pass its filter
Kept(item) ==
    { k \in DOMAIN item :
        /\ item[k].t \notin {"undefined", "null"}
        /\ item[k] # Str("")
        /\ item[k].t = "array" =>
              /\ item[k].v # <<>>
              /\ k = "author" =>
                    SelectSeq(MapSeq(item[k].v, cleanAuthor),
                              LAMBDA a : a # NullAuthor) # <<>> }

\* cleanCSLItem: id and type are copied first, then every key that passes
cleanCSLItem(item) ==
    [k \in {"id", "type"} \cup Kept(item) |->
        IF k = "author" /\ k \in Kept(item) /\ item[k].t = "array"
        THEN Arr(SelectSeq(MapSeq(item[k].v, cleanAuthor), LAMBDA a : a # NullAuthor))
        ELSE item[k]]

\* String.prototype.slice(0, n)
Slice(str, n) == IF Len(str) <= n THEN str ELSE SubSeq(str, 1, n)

\* String.prototype.toLowerCase on the platform names in use
Lower(str) ==
    CASE str = "ChatGPT" -> "chatgpt"
      [] str = "Claude" -> "claude"
      [] OTHER -> str

Href(url) ==
    url.scheme \o "://" \o url.host \o "/" \o url.name
        \o (IF url.ext = "" THEN "" ELSE "." \o url.ext)

\* a URL-typed property: undefined or the string of the URL
UrlValue(url) == IF url = NoUrl THEN JsUndefined ELSE Str(Href(url))

\* source.aiMetadata?.[k]
AiProp(source, k) ==
    IF source.aiMetadata.t = "object" THEN Prop(source.aiMetadata.v, k) ELSE Undefined

\* (source.aiMetadata as any)?.toolContext
ToolContextOf(source) ==
    IF source.aiMetadata.t = "object" /\ "toolContext" \in DOMAIN source.aiMetadata.v
    THEN source.aiMetadata.v.toolContext
    ELSE JsUndefined

buildNotebookLMTitle(source, toolContext) ==
    LET baseTitle == OrElse(AiProp(source, "conversationTitle"),
                            OrElse(AiProp(source, "notebookTitle"), "NotebookLM session"))
        tc == toolContext.v
        names == tc.sourceNames
        based ==
            IF tc.generatedFromSources /\ tc.sourceCount > 0
            THEN IF names # <<>>
                 THEN " based on "
                        \o JoinWith(SubSeq(names, 1, IF Len(names) < 3 THEN Len(names) ELSE 3), ", ")
                        \o (IF Len(names) - 3 > 0
                            THEN " and " \o ToString(Len(names) - 3) \o " more" ELSE "")
                 ELSE " based on " \o ToString(tc.sourceCount) \o " source"
                        \o (IF tc.sourceCount > 1 THEN "s" ELSE "")
            ELSE ""
        subtitle ==
            IF baseTitle # "NotebookLM session" THEN " [" \o baseTitle \o "]" ELSE ""
    IN  IF toolContext.t # "object" THEN baseTitle
        ELSE IF tc.outputType = "chat" THEN baseTitle
        ELSE tc.outputLabel \o based \o subtitle

NotebookLMGenre(toolContext) ==
    IF toolContext.t # "object" THEN "AI research tool"
    ELSE CASE toolContext.v.outputType = "audio-overview" -> "AI-generated audio summary"
           [] toolContext.v.outputType = "video-overview" -> "AI-generated video summary"
           [] toolContext.v.outputType = "quiz" -> "AI-generated quiz"
           [] toolContext.v.outputType = "flashcards" -> "AI-generated flashcards"
           [] toolContext.v.outputType = "mind-map" -> "AI-generated mind map"
           [] toolContext.v.outputType = "report" -> "AI-generated report"
           [] OTHER -> "AI research tool"

\* formatCSLDate(source.metadata.accessed) || getCurrentDateCSL()
AccessedDate(source) ==
    IF formatCSLDate(source.metadata.accessed).t # "undefined"
    THEN formatCSLDate(source.metadata.accessed)
    ELSE getCurrentDateCSL

\* cslItem.note is assigned only when there is a note
WithNote(item, notes) ==
    IF notes = <<>> THEN item
    ELSE ("note" :> Str(JoinWith(notes, ". "))) @@ item

aiConversationToCSL(source, id) ==
    LET platform == Lower(OrElse(source.platform, "unknown"))
        toolName ==
            IF platform \in DOMAIN AI_TOOL_NAMES THEN AI_TOOL_NAMES[platform]
            ELSE OrElse(source.platform, "AI Assistant")
        modelVersion == OrElse(AiProp(source, "modelVersion"), "")
        title ==
            IF platform = "notebooklm"
            THEN buildNotebookLMTitle(source, ToolContextOf(source))
            ELSE OrElse(AiProp(source, "conversationTitle"),
                   OrElse(source.metadata.title,
                     "Response to \"" \o Slice(OrElse(AiProp(source, "promptText"), ""), 50)
                        \o "...\""))
        genre ==
            IF platform = "notebooklm" THEN NotebookLMGenre(ToolContextOf(source))
            ELSE "Large language model"
        fullTitle ==
            toolName \o (IF modelVersion # "" THEN " (" \o modelVersion \o ")" ELSE "")
        shareable == IF source.aiMetadata.t = "object"
                     THEN source.aiMetadata.v.shareableUrl ELSE NoUrl
        promptNote ==
            IF Truthy(AiProp(source, "promptText"))
            THEN <<"Prompt: \"" \o Slice(AiProp(source, "promptText"), 200) \o "...\"">>
            ELSE <<>>
        topicNote == IF title # fullTitle THEN <<"Topic: " \o title>> ELSE <<>>
        cslItem ==
            [id |-> Str(id),
             type |-> Str("software"),
             title |-> Str(fullTitle),
             author |-> IF platform \in DOMAIN AI_PLATFORM_AUTHORS
                        THEN Arr(<<AI_PLATFORM_AUTHORS[platform]>>) ELSE JsUndefined,
             accessed |-> AccessedDate(source),
             URL |-> UrlValue(IF shareable # NoUrl THEN shareable ELSE source.metadata.URL),
             genre |-> Str(genre),
             version |-> V(OrElse(modelVersion, Undefined)),
             issued |-> getIssuedDate(source)]
    IN  cleanCSLItem(WithNote(cslItem, promptNote \o topicNote))

\* seconds.toString().padStart(2, '0')
Pad2(n) == IF n < 10 THEN "0" \o ToString(n) ELSE ToString(n)

\* metadata.timeParam is the text that follows "?t=" or "&t=" in the URL, as
\* <<text>>, and <<>> when the URL has no such parameter; matched is what
\* /[?&]t=(\d+)/ captures of it, seconds its parseInt
videoToCSL(source, id) ==
    LET param == source.metadata.timeParam
        text == IF param = <<>> THEN "" ELSE param[1]
        digit == <<"0", "1", "2", "3", "4", "5", "6", "7", "8", "9">>
        isDigit(i) == \E d \in 1..10 : digit[d] = SubSeq(text, i, i)
        matched ==
            CHOOSE k \in 0..Len(text) :
                /\ \A i \in 1..k : isDigit(i)
                /\ k = Len(text) \/ ~isDigit(k + 1)
        RECURSIVE parseInt(_)
        parseInt(k) ==
            IF k = 0 THEN 0
            ELSE 10 * parseInt(k - 1)
                   + (CHOOSE d \in 1..10 : digit[d] = SubSeq(text, k, k)) - 1
        seconds == parseInt(matched)
        cslItem ==
            [id |-> Str(id),
             type |-> Str("motion_picture"),
             title |-> V(source.metadata.title),
             author |-> Arr(getAuthors(source)),
             accessed |-> AccessedDate(source),
             issued |-> getIssuedDate(source),
             URL |-> UrlValue(source.metadata.URL),
             publisher |-> V(source.metadata.publisher)]
            @@ ("container-title" :> Str(OrElse(source.metadata.containerTitle, "YouTube")))
    IN  cleanCSLItem(
          WithNote(cslItem,
                   IF source.metadata.URL # NoUrl /\ matched > 0
                   THEN <<"Timestamp: " \o ToString(seconds \div 60) \o ":"
                            \o Pad2(seconds % 60)>>
                   ELSE <<>>))

documentToCSL(source, id) ==
    LET type == IF Truthy(source.metadata.DOI) \/ Truthy(source.metadata.volume)
                THEN "article-journal"
                ELSE IF Truthy(source.metadata.publisher) THEN "book"
                ELSE "document"
    IN  cleanCSLItem(
          [id |-> Str(id),
           type |-> Str(type),
           title |-> V(source.metadata.title),
           author |-> Arr(getAuthors(source)),
           accessed |-> AccessedDate(source),
           issued |-> getIssuedDate(source),
           URL |-> UrlValue(source.metadata.URL),
           DOI |-> V(source.metadata.DOI),
           publisher |-> V(source.metadata.publisher),
           volume |-> V(source.metadata.volume),
           issue |-> V(source.metadata.issue),
           page |-> V(source.metadata.page),
           abstract |-> V(source.metadata.abstract)]
          @@ ("container-title" :> V(source.metadata.containerTitle)))

webpageToCSL(source, id) ==
    cleanCSLItem(
      [id |-> Str(id),
       type |-> Str("webpage"),
       title |-> V(source.metadata.title),
       author |-> Arr(getAuthors(source)),
       accessed |-> AccessedDate(source),
       issued |-> getIssuedDate(source),
       URL |-> UrlValue(source.metadata.URL),
       publisher |-> V(source.metadata.publisher),
       abstract |-> V(source.metadata.abstract)]
      @@ ("container-title" :> V(source.metadata.containerTitle)))

sourceToCSL(source) ==
    LET id == OrElse(source.id, "source-" \o ToString(now))
    IN  IF source.sourceType = "ai-conversation" /\ Truthy(source.platform)
        THEN aiConversationToCSL(source, id)
        ELSE IF source.sourceType = "video" THEN videoToCSL(source, id)
        ELSE IF source.sourceType \in {"pdf", "academic"} THEN documentToCSL(source, id)
        ELSE webpageToCSL(source, id)

(***************************************************************************)
(* SpecCSL: sourceToCSL applied to one Source Record.                      *)
(***************************************************************************)
AuthorEntries ==
    { Obj([family |-> "Doe", given |-> "Jane"]),
      Obj([family |-> "", given |-> Undefined, literal |-> Null]),
      NameStr(<<"Doe", ",", "Jane">>) }

RECURSIVE SeqsUpTo(_, _)
SeqsUpTo(S, n) ==
    IF n = 0 THEN {<<>>}
    ELSE SeqsUpTo(S, n - 1)
           \cup { Append(q, x) : q \in SeqsUpTo(S, n - 1), x \in S }

\* metadata.author as stored: absent, an array, or a legacy string
RawAuthors ==
    {JsUndefined}
    \cup { Arr(q) : q \in SeqsUpTo(AuthorEntries, MaxAuthors) }
    \cup { NameStr(<<>>), NameStr(<<"Jane", "Doe">>), NameStr(<<"Doe", ",">>),
           NameStr(<<"Ada", "King", "Lovelace">>), NameStr(<<"OpenAI">>),
           NameStr(<<"Acme", "Corp">>) }

Metadatas(urls, authors, extras, times) ==
    { [title |-> title, author |-> author, URL |-> url,
       containerTitle |-> ct, publisher |-> pub,
       accessed |-> accessed, issued |-> issued,
       DOI |-> x, volume |-> x, issue |-> x, page |-> x, abstract |-> x,
       timeParam |-> tp] :
        title \in {Undefined, "", "T"}, author \in authors, url \in urls,
        ct \in {Undefined, "", "Site"}, pub \in {Undefined, "Pub"},
        accessed \in {JsUndefined, CslDate(<<<<NoDate>>>>), CslDate(<<<<2, NoDate>>>>)},
        issued \in {JsUndefined, CslDate(<<<<1>>>>)},
        x \in extras, tp \in times }

AiMeta(version, title, prompt, share) ==
    [modelVersion |-> version, conversationTitle |-> title,
     promptText |-> prompt, shareableUrl |-> share]

ToolContext(outputType, label, fromSources, count, names) ==
    Obj([outputType |-> outputType, outputLabel |-> label,
         generatedFromSources |-> fromSources, sourceCount |-> count,
         sourceNames |-> names])

AiMetadatas ==
    LET bare == AiMeta("", Undefined, Undefined, NoUrl)
        full == AiMeta("GPT-5.1", "Chat", "Why?", Url("https", "chatgpt.com", "share", ""))
    IN  { JsUndefined, Obj(bare), Obj(full),
          Obj(("toolContext" :> ToolContext("chat", "Chat", FALSE, 0, <<>>)) @@ full),
          Obj(("toolContext" :> ToolContext("quiz", "Quiz", TRUE, 4,
                                            <<"a", "b", "c", "d">>)) @@ bare),
          Obj(("toolContext" :> ToolContext("audio-overview", "Audio Overview",
                                            TRUE, 2, <<>>)) @@ full) }

Capture(id, sourceType, platform, metadata, ai) ==
    [id |-> id, createdAt |-> 0, sourceType |-> sourceType, platform |-> platform,
     metadata |-> metadata, aiMetadata |-> ai]

\* the records sourceToCSL is applied to, by source type
WebpageSources ==
    { Capture("uuid-1", "webpage", Undefined, m, JsUndefined) :
        m \in Metadatas({NoUrl, WebUrl, Url("https", "www.example-site.com", "page", "")},
                         RawAuthors, {Undefined, "", Null, "X"}, {<<>>}) }

DocumentSources ==
    { Capture("uuid-1", "pdf", "local", m, JsUndefined) :
        m \in Metadatas({NoUrl, FileUrl}, RawAuthors, {Undefined, "", Null, "X"}, {<<>>}) }
    \cup
    { Capture("uuid-1", sourceType, platform, m, JsUndefined) :
        sourceType \in {"document", "academic"}, platform \in {"local"},
        m \in Metadatas({Url("file", "", "notes", "docx"), WebUrl}, {JsUndefined},
                        {Undefined, "", Null, "X"}, {<<>>}) }

VideoSources ==
    { Capture("uuid-1", "video", "youtube", m, JsUndefined) :
        m \in Metadatas({NoUrl, VideoUrl}, RawAuthors, {Undefined}, {<<>>, <<"0">>, <<"125">>, <<"3725">>, <<"2m5s">>}) }

AiSources ==
    { Capture(id, "ai-conversation", platform, m, ai) :
        id \in {"", "uuid-1"},
        platform \in {Undefined, "chatgpt", "ChatGPT", "notebooklm", "mistral"},
        m \in Metadatas({NoUrl, ChatUrl}, {JsUndefined}, {Undefined}, {<<>>}),
        ai \in AiMetadatas }

InitCSL ==
    /\ sources = {}
    /\ sessions = {}
    /\ groups = {}
    /\ now = 0
    /\ nextId = [source |-> 0, session |-> 0, group |-> 0]
    /\ bg = "query"
    /\ cap = [p \in Procs |-> Idle]
    /\ \/ rec \in WebpageSources
       \/ rec \in DocumentSources
       \/ rec \in VideoSources
       \/ rec \in AiSources
    /\ csl = NoItem
    /\ cite = "idle"

\* the caller hands the record to sourceToCSL
Convert ==
    /\ csl = NoItem
    /\ csl' = sourceToCSL(rec)
    /\ UNCHANGED <<sources, sessions, groups, now, nextId, bg, cap, rec, cite>>

NextCSL == Convert

SpecCSL == InitCSL /\ [][NextCSL]_vars

(***************************************************************************)
(* The Style Engine (generateCitations over citeproc-js), the style        *)
(* loader, and the CitationFormatter request that calls them.              *)
(***************************************************************************)
CacheTTL == 7       \* days a style cached in IndexedDB stays valid

\* formatCitationDate on a Date
formatCitationDate(t) == "date " \o ToString(DateParts(t)[1])

\* source.metadata.author?.[0] and its family / literal
FirstAuthorName(source) ==
    LET raw == source.metadata.author
        first == IF raw.t = "array" /\ raw.v # <<>> THEN raw.v[1] ELSE JsUndefined
        author == IF first.t = "object" THEN first.v ELSE NullAuthor
    IN  OrElse(Prop(author, "family"), OrElse(Prop(author, "literal"), "Unknown Author"))

\* source.metadata.issued?.['date-parts']?.[0]?.[0] || the year of createdAt
YearOf(source) ==
    LET issued == source.metadata.issued
        first == IF issued.t = "object" /\ issued.v.dateParts # <<>>
                    /\ issued.v.dateParts[1] # <<>>
                 THEN issued.v.dateParts[1][1] ELSE NoDate
    IN  IF first # NoDate /\ first # 0 THEN first ELSE DateParts(source.createdAt)[1]

QuickToolName(platform, given) ==
    CASE platform = "chatgpt" -> "ChatGPT"
      [] platform = "claude" -> "Claude"
      [] platform = "gemini" -> "Gemini"
      [] platform = "notebooklm" -> "NotebookLM"
      [] platform = "grok" -> "Grok"
      [] OTHER -> OrElse(given, "AI Tool")

QuickCompany(platform) ==
    CASE platform = "chatgpt" -> "OpenAI"
      [] platform = "claude" -> "Anthropic"
      [] platform \in {"gemini", "notebooklm"} -> "Google"
      [] platform = "grok" -> "xAI"
      [] OTHER -> "AI Provider"

generateQuickCitation(source, style) ==
    LET authorName == FirstAuthorName(source)
        year == ToString(YearOf(source))
        title == OrElse(source.metadata.title, "Untitled")
        url == IF source.metadata.URL = NoUrl THEN "" ELSE " " \o Href(source.metadata.URL)
        mlaUrl == IF source.metadata.URL = NoUrl THEN ""
                  ELSE ", " \o Href(source.metadata.URL)
        toolName == QuickToolName(Lower(source.platform), source.platform)
        companyName == QuickCompany(Lower(source.platform))
        version == AiProp(source, "modelVersion")
        versionSuffix == IF Truthy(version) THEN " (" \o version \o ")" ELSE ""
        accessDate == formatCitationDate(source.createdAt)
    IN  IF source.sourceType = "ai-conversation" /\ Truthy(source.platform)
        THEN CASE style = "apa" ->
                    companyName \o ". (" \o year \o "). " \o toolName \o versionSuffix
                        \o " [Large language model]." \o url
               [] style = "mla" ->
                    "\"" \o title \o ".\" " \o toolName \o ", "
                        \o OrElse(version, "current version") \o ", " \o companyName
                        \o ", " \o accessDate \o mlaUrl \o "."
               [] style = "chicago" ->
                    companyName \o ". \"" \o title \o ".\" " \o toolName
                        \o ". Accessed " \o accessDate \o "." \o url
               [] OTHER -> companyName \o ". " \o toolName \o versionSuffix \o "." \o url
        ELSE CASE style = "mla" ->
                    authorName \o ". \"" \o title \o ".\" "
                        \o OrElse(source.metadata.containerTitle, "Web") \o ", " \o year \o "."
               [] style = "chicago" ->
                    authorName \o ". \"" \o title \o ".\" Accessed "
                        \o formatCitationDate(source.createdAt) \o "." \o url
               [] OTHER -> authorName \o " (" \o year \o "). " \o title \o "." \o url

CitationResult(inText, bibliography, html) ==
    [inText |-> inText, bibliography |-> bibliography, bibliographyHtml |-> html]

Range(seq) == { seq[i] : i \in 1..Len(seq) }

\* the index of the first source with this id (Array.prototype.find)
Find(req, id) ==
    IF \E i \in 1..Len(req) : req[i].id = id
    THEN CHOOSE i \in 1..Len(req) : req[i].id = id /\ \A j \in 1..(i - 1) : req[j].id # id
    ELSE 0

\* a mutant of the catch branch: nothing is put into the map
QuickCitations_none(req, style) == [id \in {} |-> CitationResult("", "", "")]

\* the catch branch of generateCitationsForSources: a quick citation for
\* every source (a later set() for the same id replaces the earlier one)
QuickCitations(req, style) ==
    [id \in { src.id : src \in Range(req) } |->
        LET source == req[CHOOSE i \in 1..Len(req) :
                            req[i].id = id /\ \A j \in (i + 1)..Len(req) : req[j].id # id]
        IN  CitationResult(
              "(" \o FirstAuthorName(source) \o ", " \o ToString(YearOf(source)) \o ")",
              generateQuickCitation(source, style),
              generateQuickCitation(source, style))]

\* citeproc-js, seen from outside: the citation cluster of one item and one
\* bibliography entry per item, an entry being the HTML nodes around the
\* text rendered for the item
Cluster(item, style) == "(" \o style \o " " \o item.id.v \o ")"
BibEntry(item, style) ==
    [entry_ids |-> <<item.id.v>>,
     html |-> <<"<div>", style \o " entry of " \o item.id.v, "</div>">>]

\* entries[i].replace(/<[^>]+>/g, '').replace(/\s+/g, ' ').trim()
StripHtml(html) == JoinWith(SelectSeq(html, LAMBDA node : node \notin {"<div>", "</div>"}), " ")

\* a mutant of the join: the i-th entry is given to the i-th source
EntryFor_positional(entries, req, id) ==
    IF Find(req, id) \in 1..Len(entries) THEN <<entries[Find(req, id)]>> ELSE <<>>

\* the bibliography entry generateCitations attaches to source id: the last
\* entry whose first entry id is this id
EntryFor(entries, req, id) ==
    LET mine == { i \in 1..Len(entries) :
                    entries[i].entry_ids # <<>> /\ entries[i].entry_ids[1] = id }
    IN  IF Find(req, id) # 0 /\ mine # {}
        THEN <<entries[CHOOSE i \in mine : \A j \in mine : j <= i]>>
        ELSE <<>>

\* generateCitations after the engine is created; order is the order in which
\* the processor returns the bibliography entries
EngineCitations(req, style, order) ==
    LET cslItems == MapSeq(req, sourceToCSL)
        entries == [i \in 1..Len(order) |-> BibEntry(cslItems[order[i]], style)]
    IN  [id \in { src.id : src \in Range(req) } |->
            LET i == CHOOSE k \in 1..Len(req) :
                        req[k].id = id /\ \A j \in (k + 1)..Len(req) : req[j].id # id
                entry == EntryFor(entries, req, id)
            IN  CitationResult(
                  OrElse(Cluster(cslItems[i], style), ""),
                  IF entry = <<>> THEN "" ELSE StripHtml(entry[1].html),
                  IF entry = <<>> THEN "" ELSE JoinWith(entry[1].html, ""))]

EngineBibliography(req, style, order) ==
    LET cslItems == MapSeq(req, sourceToCSL)
    IN  JoinWith([i \in 1..Len(order) |-> StripHtml(BibEntry(cslItems[order[i]], style).html)],
                 " ")

(***************************************************************************)
(* SpecCite: CitationFormatter requests.  cite holds the component's state *)
(* (citations, fullBibliography, isLoading, error), the position of the    *)
(* pending generateCitationsForSources, and the two style caches.  The     *)
(* preloadCommonStyles call made on mount has settled before the first     *)
(* request: the memory cache holds the styles it could load.               *)
(***************************************************************************)
ErrFetchStyle == "Failed to fetch style"
ErrStyleDb == "style cache request failed"
ErrProcessor == "citeproc error"
ErrCitations == "Failed to generate citations. Using preview format."

NoCitations == [id \in {} |-> CitationResult("", "", "")]

BareMetadata(title, author, url, issued) ==
    [title |-> title, author |-> author, URL |-> url,
     containerTitle |-> Undefined, publisher |-> Undefined,
     accessed |-> JsUndefined, issued |-> issued,
     DOI |-> Undefined, volume |-> Undefined, issue |-> Undefined,
     page |-> Undefined, abstract |-> Undefined, timeParam |-> <<>>]

\* the Source Records the user can select for citation
CiteSources ==
    { Capture("uuid-1", "webpage", Undefined,
              BareMetadata("T", Arr(<<Obj([family |-> "Doe", given |-> "Jane"])>>),
                           WebUrl, CslDate(<<<<3>>>>)),
              JsUndefined),
      Capture("uuid-2", "webpage", Undefined,
              BareMetadata(Undefined, JsUndefined, NoUrl, JsUndefined), JsUndefined),
      Capture("uuid-3", "ai-conversation", "ChatGPT",
              BareMetadata("Chat", JsUndefined, ChatUrl, JsUndefined),
              Obj(AiMeta("GPT-4", "Chat", "Why?", NoUrl))) }

\* the selections: lists of distinct records
CiteRequests ==
    { q \in SeqsUpTo(CiteSources, MaxCited) :
        \A i, j \in 1..Len(q) : i # j => q[i].id # q[j].id }

RequestedStyles == {"apa", "mla"}

Perms(n) == { f \in [1..n -> 1..n] : \A i, j \in 1..n : i # j => f[i] # f[j] }

\* getCachedStyle: the stored xml when the entry is younger than CacheTTL
CachedStyle(idb, style) ==
    { e \in idb : e.id = style /\ now - e.timestamp < CacheTTL }

\* the catch and finally branches of generateCitationsForSources
Failed(c, err) ==
    [c EXCEPT !.pc = "done", !.logged = err, !.error = ErrCitations,
              !.citations = QuickCitations(c.req, c.style),
              !.fullBibliography =
                  JoinWith([i \in 1..Len(c.req) |->
                              generateQuickCitation(c.req[i], c.style)], "\n\n"),
              !.isLoading = FALSE]

\* the effect runs generateCitationsForSources for the selection and style
RequestCitations(req, style) ==
    /\ cite.pc \in {"idle", "done"}
    /\ cite.left > 0
    /\ cite' =
         IF req = <<>>
         THEN [cite EXCEPT !.pc = "done", !.req = req, !.style = style,
                           !.left = @ - 1, !.logged = "",
                           !.citations = NoCitations, !.fullBibliography = ""]
         ELSE [cite EXCEPT !.pc = IF style \in cite.styleCache
                                  THEN "engine" ELSE "getCachedStyle",
                           !.req = req, !.style = style, !.left = @ - 1,
                           !.logged = "", !.isLoading = TRUE, !.error = Null]
    /\ UNCHANGED <<sources, sessions, groups, now, nextId, bg, cap, rec, csl>>

\* loadStyle: getCachedStyle settled.  Opening the database may fail (null
\* is returned); the get request may fail (the returned promise rejects)
GetCachedStyleDone(outcome) ==
    /\ cite.pc = "getCachedStyle"
    /\ cite' =
         CASE outcome = "readFails" -> Failed(cite, ErrStyleDb)
           [] outcome = "ok" /\ CachedStyle(cite.idb, cite.style) # {} ->
                [cite EXCEPT !.pc = "engine", !.styleCache = @ \cup {cite.style}]
           [] OTHER -> [cite EXCEPT !.pc = "fetch"]
    /\ UNCHANGED <<sources, sessions, groups, now, nextId, bg, cap, rec, csl>>

\* loadStyle: fetchStyleFromRepository settled
FetchStyleDone(ok) ==
    /\ cite.pc = "fetch"
    /\ cite' =
         IF ok
         THEN [cite EXCEPT !.pc = "cacheStyle", !.styleCache = @ \cup {cite.style}]
         ELSE Failed(cite, ErrFetchStyle)
    /\ UNCHANGED <<sources, sessions, groups, now, nextId, bg, cap, rec, csl>>

\* loadStyle: cacheStyle settled
CacheStyleDone(outcome) ==
    /\ cite.pc = "cacheStyle"
    /\ cite' =
         CASE outcome = "writeFails" -> Failed(cite, ErrStyleDb)
           [] outcome = "ok" ->
                [cite EXCEPT !.pc = "engine",
                             !.idb = { e \in @ : e.id # cite.style }
                                       \cup {[id |-> cite.style, timestamp |-> now]}]
           [] OTHER -> [cite EXCEPT !.pc = "engine"]
    /\ UNCHANGED <<sources, sessions, groups, now, nextId, bg, cap, rec, csl>>

\* generateCitations resumes with the engine: citation clusters, the
\* bibliography in the processor's order, and the join by entry id
EngineDone(order, ok) ==
    /\ cite.pc = "engine"
    /\ cite' =
         IF ok
         THEN [cite EXCEPT !.pc = "done",
                           !.citations = EngineCitations(cite.req, cite.style, order),
                           !.fullBibliography =
                               EngineBibliography(cite.req, cite.style, order),
                           !.isLoading = FALSE]
         ELSE Failed(cite, ErrProcessor)
    /\ UNCHANGED <<sources, sessions, groups, now, nextId, bg, cap, rec, csl>>

InitCite ==
    /\ sources = {}
    /\ sessions = {}
    /\ groups = {}
    /\ now = CacheTTL
    /\ nextId = [source |-> 0, session |-> 0, group |-> 0]
    /\ bg = "query"
    /\ cap = [p \in Procs |-> Idle]
    /\ rec = NoSource
    /\ csl = NoItem
    /\ \E idb \in { {}, {[id |-> "apa", timestamp |-> 0]},
                    {[id |-> "apa", timestamp |-> 1]} },
          preloaded \in { {}, {"apa"} } :
          cite = [pc |-> "idle", req |-> <<>>, style |-> "apa", left |-> MaxRequests,
                  citations |-> NoCitations, fullBibliography |-> "",
                  isLoading |-> FALSE, error |-> Null, logged |-> "",
                  styleCache |-> preloaded, idb |-> idb]

NextCite ==
    \/ \E req \in CiteRequests, style \in RequestedStyles : RequestCitations(req, style)
    \/ \E outcome \in {"ok", "openFails", "readFails"} : GetCachedStyleDone(outcome)
    \/ \E ok \in BOOLEAN : FetchStyleDone(ok)
    \/ \E outcome \in {"ok", "openFails", "writeFails"} : CacheStyleDone(outcome)
    \/ \E order \in Perms(Len(cite.req)), ok \in BOOLEAN : EngineDone(order, ok)

SpecCite == InitCite /\ [][NextCite]_vars

(***************************************************************************)
(* SpecLoad: loadStyle invocations of one side panel page.  The preload    *)
(* started on mount and the citation requests call loadStyle without       *)
(* waiting for one another, so the invocations interleave at their awaits. *)
(* A style definition is written <<t>>, t the time it was stored; cite     *)
(* holds the invocations, the memory cache (style id to definition) and    *)
(* the IndexedDB cache.                                                    *)
(***************************************************************************)
\* loadStyle up to its first await: the memory cache, else getCachedStyle
loadStyle(i, style) ==
    /\ cite.load[i].pc = "idle"
    /\ \A j \in 1..(i - 1) : cite.load[j].pc # "idle"
    /\ cite' = [cite EXCEPT !.load[i] =
                  IF style \in DOMAIN cite.styleCache
                  THEN [pc |-> "done", style |-> style, xml |-> cite.styleCache[style]]
                  ELSE [pc |-> "getCachedStyle", style |-> style, xml |-> <<>>]]
    /\ UNCHANGED <<sources, sessions, groups, now, nextId, bg, cap, rec, csl>>

\* getCachedStyle settled: the entry when it is younger than CacheTTL, null
\* when the database cannot be opened, rejected when the get request fails
LoadGetCachedStyleDone(i, outcome) ==
    LET l == cite.load[i]
        cached == CachedStyle(cite.idb, l.style)
    IN  /\ l.pc = "getCachedStyle"
        /\ cite' =
             CASE outcome = "readFails" -> [cite EXCEPT !.load[i].pc = "failed"]
               [] outcome = "ok" /\ cached # {} ->
                    [cite EXCEPT
                       !.styleCache = (l.style :> (CHOOSE e \in cached : TRUE).xml) @@ @,
                       !.load[i] = [l EXCEPT !.pc = "done",
                                             !.xml = (CHOOSE e \in cached : TRUE).xml]]
               [] OTHER -> [cite EXCEPT !.load[i].pc = "fetch"]
        /\ UNCHANGED <<sources, sessions, groups, now, nextId, bg, cap, rec, csl>>

\* fetchStyleFromRepository settled; the definition goes into the memory
\* cache before cacheStyle is awaited
LoadFetchDone(i, ok) ==
    LET l == cite.load[i]
    IN  /\ l.pc = "fetch"
        /\ cite' =
             IF ok
             THEN [cite EXCEPT !.styleCache = (l.style :> <<now>>) @@ @,
                               !.load[i] = [l EXCEPT !.pc = "cacheStyle", !.xml = <<now>>]]
             ELSE [cite EXCEPT !.load[i].pc = "failed"]
        /\ UNCHANGED <<sources, sessions, groups, now, nextId, bg, cap, rec, csl>>

\* cacheStyle settled: the entry is put with the current time, or the
\* database cannot be opened (ignored), or the put request fails (rejected)
LoadCacheStyleDone(i, outcome) ==
    LET l == cite.load[i]
    IN  /\ l.pc = "cacheStyle"
        /\ cite' =
             CASE outcome = "writeFails" -> [cite EXCEPT !.load[i].pc = "failed"]
               [] outcome = "ok" ->
                    [cite EXCEPT
                       !.load[i].pc = "done",
                       !.idb = { e \in @ : e.id # l.style }
                                 \cup {[id |-> l.style, xml |-> l.xml, timestamp |-> now]}]
               [] OTHER -> [cite EXCEPT !.load[i].pc = "done"]
        /\ UNCHANGED <<sources, sessions, groups, now, nextId, bg, cap, rec, csl>>

\* the page has just been opened (empty memory cache; the IndexedDB cache is
\* empty or holds apa, put there CacheTTL - 1 or CacheTTL days ago), or it
\* has been open since it loaded apa CacheTTL days ago
InitLoad ==
    /\ sources = {}
    /\ sessions = {}
    /\ groups = {}
    /\ now = 0
    /\ nextId = [source |-> 0, session |-> 0, group |-> 0]
    /\ bg = "query"
    /\ cap = [p \in Procs |-> Idle]
    /\ rec = NoSource
    /\ csl = NoItem
    /\ \E age \in {CacheTTL - 1, CacheTTL}, stored \in BOOLEAN, open \in BOOLEAN :
          /\ open => age = CacheTTL
          /\ cite = [load |-> [i \in 1..MaxLoads |->
                                 [pc |-> "idle", style |-> "apa", xml |-> <<>>]],
                     styleCache |-> IF open THEN ("apa" :> <<0 - age>>) ELSE <<>>,
                     idb |-> IF stored
                             THEN {[id |-> "apa", xml |-> <<0 - age>>,
                                    timestamp |-> 0 - age]}
                             ELSE {}]

NextLoad ==
    \/ \E i \in 1..MaxLoads, style \in RequestedStyles : loadStyle(i, style)
    \/ \E i \in 1..MaxLoads, outcome \in {"ok", "openFails", "readFails"} :
            LoadGetCachedStyleDone(i, outcome)
    \/ \E i \in 1..MaxLoads, ok \in BOOLEAN : LoadFetchDone(i, ok)
    \/ \E i \in 1..MaxLoads, outcome \in {"ok", "openFails", "writeFails"} :
            LoadCacheStyleDone(i, outcome)
    \/ Tick

SpecLoad == InitLoad /\ [][NextLoad]_vars

(***************************************************************************)
(* Properties of the capture pipeline (Spec).                              *)
(***************************************************************************)
ActiveWithUrl(url) == { s \in sources : ~s.isDeleted /\ s.URL = url }

\* C1: a capture whose duplicate check finds an active record with the same
\* URL ends with the error 'This page has already been captured.', the step
\* adds no record, and a failed invocation never acts again.
C1_DuplicateRejected ==
    [][\A p \in Procs :
          /\ (cap[p].pc = "dedup" /\ cap'[p].pc # "dedup"
                /\ ActiveWithUrl(cap[p].url) # {})
             => (cap'[p].pc = "failed" /\ cap'[p].error = ErrDuplicate
                   /\ sources' = sources)
          /\ cap[p].pc = "failed" => cap'[p] = cap[p]]_vars

\* C1 witness: a second capture of a URL was rejected while the record of the
\* first capture is still active and is the only record
C1_Witness ==
    \E p \in Procs :
        /\ cap[p].error = ErrDuplicate
        /\ \E s \in sources : ~s.isDeleted /\ Cardinality(sources) = 1

\* C2: a capture is rejected as a duplicate only when an active record has
\* the same URL.
C2_RejectedOnlyForActive ==
    [][\A p \in Procs :
          (cap[p].pc = "dedup" /\ cap'[p].pc = "failed" /\ cap'[p].error = ErrDuplicate)
          => ActiveWithUrl(cap[p].url) # {}]_vars

\* C3: at the step that rejects a capture as a duplicate, the capture has
\* started neither the screenshot nor the extraction.
C3_DuplicateBeforeWork ==
    [][\A p \in Procs :
          (cap[p].error # ErrDuplicate /\ cap'[p].error = ErrDuplicate)
          => cap[p].started = {}]_vars

\* C3 witness: a capture has been rejected as a duplicate
C3_Witness == \E p \in Procs : cap[p].pc = "failed" /\ cap[p].error = ErrDuplicate

\* C6: every stored Source Record has a non-empty title.
C6_TitleNonEmpty == \A s \in sources : Truthy(s.title)

\* C7: a stored Source Record has aiMetadata exactly when its sourceType is
\* 'ai-conversation'.
C7_AiMetadataIff ==
    \A s \in sources : (s.aiMetadata # NoObject) <=> (s.sourceType = "ai-conversation")

\* C7 witness: an AI conversation has been stored with its aiMetadata
C7_Witness ==
    \E s \in sources : s.sourceType = "ai-conversation" /\ s.aiMetadata = AiObject

Unsupported(url) == ~isHttpUrl(url) /\ ~isFileUrl(url)

\* C10: an invocation for a tab that is neither an http(s) page nor a local
\* file never gets past the tabs.get step: it starts neither the screenshot
\* nor the extraction, the step that ends it adds no record and leaves it
\* failed with the unsupported-page error (or the tab is gone), and a failed
\* invocation never acts again.
C10_UnsupportedRejected ==
    [][\A p \in Procs :
          /\ (cap[p].pc = "tabsGet" /\ Unsupported(cap[p].url)
                /\ cap'[p] # cap[p])
             => /\ cap[p].started = {}
                /\ cap'[p].pc = "failed"
                /\ cap'[p].error \in {ErrUnsupported, ErrNoTab}
                /\ cap'[p].started = {}
                /\ sources' = sources
          /\ (cap[p].pc = "failed" /\ cap[p].error = ErrUnsupported)
             => cap'[p] = cap[p]]_vars

\* C10 witness: a capture has been rejected as unsupported
C10_Witness == \E p \in Procs : cap[p].pc = "failed" /\ cap[p].error = ErrUnsupported

\* C11: a failure of the screenshot, of the metadata extraction or of the
\* screenshot processing is recovered inside captureSource: no invocation
\* ends failed with the error of one of these steps as its result.
C11_StepFailuresRecovered ==
    \A p \in Procs :
        cap[p].pc = "failed" =>
            cap[p].error \notin {ErrScreenshot, ErrExtract, ErrInject, ErrProcess}

\* C15: the step that completes a capture adds exactly one record, the one
\* the invocation assembled, and a step that ends a capture as failed adds
\* none; an invocation that has failed never adds one later.
C15_OneRecordPerCapture ==
    [][\A p \in Procs :
          /\ (cap[p].pc # "done" /\ cap'[p].pc = "done")
             => /\ cap[p].source \notin sources
                /\ sources' = sources \cup {cap[p].source}
                /\ Cardinality(sources') = Cardinality(sources) + 1
          /\ (cap[p].pc # "failed" /\ cap'[p].pc = "failed") => sources' = sources
          /\ cap[p].pc = "failed" => cap'[p] = cap[p]]_vars

\* C15 witness: the first capture on the empty store has completed and the
\* store holds one record, while another capture has failed
C15_Witness ==
    /\ Cardinality(sources) = 1
    /\ \E p, q \in Procs : cap[p].pc = "done" /\ cap[q].pc = "failed"
    /\ \A s \in sources : s.id = 1

\* C26: two captures of the same URL that overlap can both pass the
\* duplicate check and both add a record.  The check of an invocation passes
\* whenever no stored record has the URL, also while another invocation for
\* the same URL is past its own check, and the add of an invocation stores
\* its record whatever has been stored since its check.
C26_CheckSeesOnlyStored ==
    [][\A p \in Procs :
          /\ (cap[p].pc = "dedup" /\ cap'[p].pc # "dedup"
                /\ \A s \in sources : s.URL # cap[p].url)
             => cap'[p].pc \notin {"failed", "done", "idle"}
          /\ (cap[p].pc = "add" /\ cap'[p].pc = "done")
             => cap[p].source \in sources']_vars

\* C26 witness: two overlapping captures of one URL have both completed and
\* the store holds two active records with that URL
C26_Witness ==
    /\ \A p \in Procs : cap[p].pc = "done"
    /\ \E s, t \in sources :
          /\ s.id # t.id /\ s.URL = t.URL
          /\ ~s.isDeleted /\ ~t.isDeleted

\* C20: when the session store holds an active session at the time a
\* capture assembles its record, the record's provenance.sessionId is the
\* id of an active session.
C20_SessionIdOfActiveSession ==
    [][\A p \in Procs :
          LET active == { x \in sessions : x.isActive = "true" }
          IN  (cap[p].pc = "session" /\ cap'[p].pc = "add" /\ active # {})
                  => cap'[p].source.provenance.sessionId \in { x.id : x \in active }]_vars

(***************************************************************************)
(* Properties of the store operations (SpecStore).                         *)
(***************************************************************************)
RecordOf(S, id) == CHOOSE s \in S : s.id = id

\* C4: softDeleteSource sets isDeleted and empties groupIds, leaves createdAt
\* and provenance as they were, and a soft-deleted record stays in the result
\* of getAllSourcesIncludingDeleted through every step other than its
\* permanent deletion, with createdAt and provenance unchanged.
C4_SoftDeleteRetains ==
    [][\A s \in sources :
          /\ softDeleteSource(s.id) =>
                LET t == RecordOf(sources', s.id)
                IN  /\ t.isDeleted /\ t.groupIds = <<>>
                    /\ t.createdAt = s.createdAt /\ t.provenance = s.provenance
          /\ s.isDeleted =>
                \/ permanentlyDeleteSource(s.id)
                \/ \E t \in getAllSourcesIncludingDeleted' :
                      /\ t.id = s.id
                      /\ t.createdAt = s.createdAt /\ t.provenance = s.provenance]_vars

\* C4 witness: a record that was captured earlier is soft-deleted and stored
C4_Witness ==
    \E s \in getAllSourcesIncludingDeleted :
        /\ s.isDeleted /\ s.groupIds = <<>> /\ s.deletedAt > s.createdAt
        /\ s \notin getActiveSources /\ groups # {}

C13_DeletedInTimeline ==
    \A s \in sources : s.isDeleted => s \in OriginTrailSources

\* C14: whenever a step of the store operations (soft delete, restore,
\* addition to or removal from a group, replacement of the groups, deletion
\* of a group) changes a stored record, the changed record has updatedAt set
\* to the time of the step.
C14_EditsSetUpdatedAt ==
    [][\A s \in sources :
          \A t \in sources' : (t.id = s.id /\ t # s) => t.updatedAt = now]_vars

\* C14 witness: a record edited after its capture: it is in a group and its
\* updatedAt is later than its createdAt
C14_Witness ==
    \E s \in sources :
        s.updatedAt > s.createdAt /\ s.groupIds # <<>> /\ ~s.isDeleted

\* C27: at every point a soft-deleted record belongs to no group, whatever
\* group operations (add to group, bulk add, set groups) come after the
\* deletion.
C27_DeletedInNoGroup ==
    \A s \in sources : s.isDeleted => s.groupIds = <<>>

\* C28: every group id in a record's groupIds is the id of a group in the
\* groups table, for any interleaving of deleteGroup with the operations
\* that add or set memberships.
C28_MembershipsExist ==
    \A s \in sources : \A i \in 1..Len(s.groupIds) : s.groupIds[i] \in groups

\* C29: soft-deleting a record and restoring it gives back the record as it
\* was before the deletion in every field but updatedAt, its group
\* memberships included.
C29_RestoreUndoesDelete ==
    \A s \in sources :
        ~s.isDeleted =>
            [Restored(SoftDeleted(s)) EXCEPT !.updatedAt = s.updatedAt] = s

(***************************************************************************)
(* Properties of ensureOffscreenDocument (SpecOffscreen).                  *)
(***************************************************************************)
\* C30: however many ensureOffscreenDocument calls run concurrently, at most
\* one createDocument request is outstanding at any time.
C30_OneCreateOutstanding ==
    Cardinality(bg.requests) <= 1

\* C30 witness: three calls overlap: the request of one is outstanding, a
\* second call waits for it and the third is still at getContexts
C30_Witness ==
    \E i, j, k \in Ensures :
        /\ i \in bg.requests
        /\ j # i /\ bg.call[j] = [pc |-> "await", promise |-> i]
        /\ k \notin {i, j} /\ bg.call[k].pc = "getContexts"

(***************************************************************************)
(* Properties of sourceToCSL (SpecCSL).                                    *)
(***************************************************************************)
\* C5: the item sourceToCSL returns has no property whose value is
\* undefined, null, the empty string or the empty array.
C5_NoEmptyProperty ==
    csl # NoItem =>
        \A k \in DOMAIN csl :
            /\ csl[k].t \notin {"undefined", "null"}
            /\ csl[k] # Str("")
            /\ csl[k] # Arr(<<>>)

\* C5 witness: a record with an empty title, an absent publisher and no
\* usable author was converted: its item has none of these keys
C5_Witness ==
    /\ csl # NoItem
    /\ rec.sourceType = "webpage"
    /\ rec.metadata.title = "" /\ rec.metadata.abstract = Null
    /\ getAuthors(rec) = <<>>
    /\ DOMAIN csl = {"id", "type", "accessed", "issued"}

\* C16: every author of the item sourceToCSL returns is in one form only:
\* the personal form (family, given) or the literal form, not both.
C16_OneAuthorForm ==
    (csl # NoItem /\ "author" \in DOMAIN csl) =>
        \A i \in 1..Len(csl["author"].v) :
            LET keys == DOMAIN csl["author"].v[i]
            IN  ~("literal" \in keys /\ keys \cap {"family", "given"} # {})

\* C21: for a record that is not an AI conversation and whose author list
\* is empty after normalisation, the item's author is the one literal author
\* taken from container-title, else from publisher, else derived from the
\* URL's domain ("www." stripped, first label, hyphen-separated words
\* capitalised): https://www.example-site.com/page gives "Example Site".
C21_SiteOrDomainAuthor ==
    LET m == rec.metadata
        noAuthor ==
            m.author \in
                { JsUndefined, Arr(<<>>), NameStr(<<>>),
                  Arr(<<Obj([family |-> "", given |-> Undefined, literal |-> Null])>>) }
        expected ==
            IF Truthy(m.containerTitle) THEN m.containerTitle
            ELSE IF Truthy(m.publisher) THEN m.publisher
            ELSE CASE m.URL.host = "example.com" -> "Example"
                   [] m.URL.host = "www.example-site.com" -> "Example Site"
                   [] m.URL.host = "youtube.com" -> "Youtube"
                   [] OTHER -> ""
    IN  (csl # NoItem /\ rec.sourceType # "ai-conversation" /\ noAuthor) =>
            IF expected = "" THEN "author" \notin DOMAIN csl
            ELSE csl["author"] = Arr(<<[literal |-> expected]>>)

\* C21 witness: a page of www.example-site.com without author, container
\* title and publisher was converted and is credited to "Example Site"
C21_Witness ==
    /\ csl # NoItem
    /\ rec.sourceType = "webpage"
    /\ rec.metadata.author = Arr(<<>>)
    /\ ~Truthy(rec.metadata.containerTitle) /\ ~Truthy(rec.metadata.publisher)
    /\ Href(rec.metadata.URL) = "https://www.example-site.com/page"
    /\ csl["author"] = Arr(<<[literal |-> "Example Site"]>>)

\* C22: for an AI conversation on a recognised platform the item's title is
\* the tool's display name followed by " (modelVersion)" when a model version
\* is known, and the bare display name otherwise: platform chatgpt with
\* modelVersion GPT-5.1 gives "ChatGPT (GPT-5.1)".
C22_AiTitle ==
    LET displayName ==
            CASE rec.platform \in {"chatgpt", "ChatGPT"} -> "ChatGPT"
              [] rec.platform = "notebooklm" -> "NotebookLM"
              [] OTHER -> ""
        version ==
            IF rec.aiMetadata.t = "object" THEN rec.aiMetadata.v.modelVersion ELSE ""
    IN  (csl # NoItem /\ rec.sourceType = "ai-conversation" /\ displayName # "") =>
            csl.title =
                Str(IF version # "" THEN displayName \o " (" \o version \o ")"
                    ELSE displayName)

\* C22 witness: a chatgpt conversation with model version GPT-5.1 was
\* converted and is titled "ChatGPT (GPT-5.1)"
C22_Witness ==
    /\ csl # NoItem
    /\ rec.sourceType = "ai-conversation" /\ rec.platform = "chatgpt"
    /\ rec.aiMetadata.t = "object" /\ rec.aiMetadata.v.modelVersion = "GPT-5.1"
    /\ csl.title = Str("ChatGPT (GPT-5.1)")

\* C23: for a video whose URL has a t= parameter, in plain seconds or in
\* HhMmSs form, the item's note is "Timestamp: M:SS", and "Timestamp: H:MM:SS"
\* from one hour upward: t=125 gives "Timestamp: 2:05".
C23_TimestampNote ==
    LET t == rec.metadata.timeParam
        expected ==
            CASE t = <<"0">> -> "Timestamp: 0:00"
              [] t = <<"125">> -> "Timestamp: 2:05"
              [] t = <<"2m5s">> -> "Timestamp: 2:05"
              [] t = <<"3725">> -> "Timestamp: 1:02:05"
              [] OTHER -> ""
    IN  (csl # NoItem /\ rec.sourceType = "video" /\ rec.metadata.URL # NoUrl
            /\ t # <<>>) =>
            ("note" \in DOMAIN csl /\ csl.note = Str(expected))

\* C24: for every record whose sourceType is document, pdf or academic the
\* item's type is article-journal if a DOI or a volume is present, else book
\* if a publisher is present, else document.
C24_DocumentType ==
    LET m == rec.metadata
    IN  (csl # NoItem /\ rec.sourceType \in {"document", "pdf", "academic"}) =>
            csl.type =
                Str(IF Truthy(m.DOI) \/ Truthy(m.volume) THEN "article-journal"
                    ELSE IF Truthy(m.publisher) THEN "book"
                    ELSE "document")

\* C25: author strings are normalised so that "Doe, Jane" becomes
\* {family: Doe, given: Jane}, "Jane Doe" becomes {given: Jane, family: Doe}
\* and "Acme Corp" becomes {literal: Acme Corp}.
C25_AuthorStrings ==
    LET raw == rec.metadata.author
        expected ==
            CASE raw = Arr(<<NameStr(<<"Doe", ",", "Jane">>)>>) ->
                    <<[family |-> "Doe", given |-> "Jane"]>>
              [] raw = NameStr(<<"Jane", "Doe">>) ->
                    <<[given |-> "Jane", family |-> "Doe"]>>
              [] raw = NameStr(<<"Acme", "Corp">>) ->
                    <<[literal |-> "Acme Corp"]>>
              [] OTHER -> <<>>
    IN  (csl # NoItem /\ rec.sourceType # "ai-conversation" /\ expected # <<>>) =>
            csl["author"] = Arr(expected)

(***************************************************************************)
(* Properties of the citation request (SpecCite).                          *)
(***************************************************************************)
RequestIds == { src.id : src \in Range(cite.req) }

(***************************************************************************)
(* Properties of the style loader (SpecLoad).                              *)
(***************************************************************************)
\* C17: no two loadStyle invocations have a network fetch of the same style
\* id in flight at once: while one is obtaining the style, no other fetches
\* it.
C17_OneFetchPerStyle ==
    \A i, j \in 1..MaxLoads :
        (i # j /\ cite.load[i].pc = "fetch" /\ cite.load[j].pc = "fetch")
            => cite.load[i].style # cite.load[j].style

\* C18: the definition with which a loadStyle invocation returns was stored
\* at most CacheTTL days before the return.
C18_ReturnedStyleFresh ==
    [][\A i \in 1..MaxLoads :
          (cite.load[i].pc # "done" /\ cite'.load[i].pc = "done")
              => now - cite'.load[i].xml[1] <= CacheTTL]_vars

(***************************************************************************)
(* Properties of the citation request (SpecCite), continued.               *)
(***************************************************************************)
\* C8: when generateCitations has returned for N distinct sources, the
\* result has exactly N citations, one per source id, each holding the
\* in-text citation and the bibliography entry the processor produced for
\* the item with that id, in whatever order it returned the entries.
C8_OnePerSource ==
    (cite.pc = "done" /\ cite.logged = "" /\ cite.req # <<>>) =>
        /\ DOMAIN cite.citations = RequestIds
        /\ Cardinality(DOMAIN cite.citations) = Len(cite.req)
        /\ \A i \in 1..Len(cite.req) :
              LET item == sourceToCSL(cite.req[i])
                  c == cite.citations[cite.req[i].id]
              IN  /\ c.inText = Cluster(item, cite.style)
                  /\ c.bibliographyHtml = JoinWith(BibEntry(item, cite.style).html, "")
                  /\ c.bibliography = StripHtml(BibEntry(item, cite.style).html)

\* C8 witness: two sources were cited and the processor returned the
\* entries in the reverse order
C8_Witness ==
    /\ cite.pc = "done" /\ cite.logged = "" /\ Len(cite.req) = 2
    /\ cite.fullBibliography =
          EngineBibliography(cite.req, cite.style, <<2, 1>>)

Contains(str, sub) ==
    \E k \in 1..(Len(str) - Len(sub) + 1) : SubSeq(str, k, k + Len(sub) - 1) = sub

\* C19: in the quick citation of a request that fell back, a field the
\* record lacks is left out: there is no placeholder for a missing author,
\* a missing title or a missing model version.
C19_MissingFieldOmitted ==
    (cite.pc = "done" /\ cite.logged # "") =>
        \A i \in 1..Len(cite.req) :
            LET source == cite.req[i]
                quick == cite.citations[source.id].bibliography
            IN  /\ source.metadata.author = JsUndefined
                      => ~Contains(quick, "Unknown Author")
                /\ ~Truthy(source.metadata.title) => ~Contains(quick, "Untitled")
                /\ ~Truthy(AiProp(source, "modelVersion"))
                      => ~Contains(quick, "current version")

====
